---- MODULE Spec2Model ----
(***************************************************************************)
(* Model of the Mintbase store contract: batch minting with storage-cost   *)
(* admission (store/src/minting.rs), minter privileges, split owners and   *)
(* payouts (store/src/payout.rs), and token owners                         *)
(* (mintbase-deps/src/common/owner.rs).                                    *)
(*                                                                         *)
(* A handler is an operator from the storage before the call to a record   *)
(* [ok, st, ...]: `st` is the storage as the handler has written it when   *)
(* it returns or panics (writes go straight to storage, so a panic leaves  *)
(* in `st` whatever was written before it).  The host discards the writes  *)
(* of a panicked call: an action commits `st` only when ok = TRUE, and     *)
(* records the call, with `st`, in the variable `last`.                    *)
(***************************************************************************)
EXTENDS Integers, Sequences, FiniteSets, TLC

VARIABLES
    tokens,            \* MintbaseStore.tokens: token id -> Token
    tokens_minted,     \* MintbaseStore.tokens_minted: the running id counter
    token_royalty,     \* MintbaseStore.token_royalty: lookup id -> (count, Royalty)
    token_metadata,    \* MintbaseStore.token_metadata: lookup id -> (count, metadata)
    tokens_per_owner,  \* MintbaseStore.tokens_per_owner: account -> set of ids
    minters,           \* MintbaseStore.minters
    last               \* the last call: operation, inputs, outcome

vars == <<tokens, tokens_minted, token_royalty, token_metadata,
          tokens_per_owner, minters, last>>

-----------------------------------------------------------------------------
(* Bounds of the model *)

\* mints are enabled while tokens_minted is below this
MaxTokens == 2

-----------------------------------------------------------------------------
(* Program constants *)

\* mintbase_deps::constants::MAX_LEN_PAYOUT
MAX_LEN_PAYOUT == 50

\* the upper limit of num_to_mint that nft_batch_mint asserts
MINT_GAS_LIMIT == 125

\* the most tokens per call that the documentation of nft_batch_mint allows
DOC_MINT_LIMIT == 99

\* the whole (100%) of a fraction map, in parts per ten thousand
Whole == 10000

\* StorageCosts: price per byte, fixed cost of a record, fixed cost of a token
storage_price_per_byte == 2
common == 3
token == 7

\* MintbaseStore.owner_id
owner_id == "store"

-----------------------------------------------------------------------------
(* Values *)

None == [some |-> FALSE]
Some(v) == [some |-> TRUE, val |-> v]

Account(a) == [kind |-> "Account", account |-> a]
TokenId(n) == [kind |-> "TokenId", token_id |-> n]
CrossKey(k) == [kind |-> "CrossKey", key |-> k]
Lock(a) == [kind |-> "Lock", locked |-> a]

\* the accounts that call the contract and own tokens
Accounts == {"store", "alice", "bob"}

\* the empty map, and a map with one more entry (LookupMap::insert)
EmptyMap == [k \in {} |-> 0]
Insert(m, k, v) == [x \in DOMAIN m \cup {k} |-> IF x = k THEN v ELSE m[x]]

RECURSIVE SumOver(_, _)
SumOver(f, S) ==
    IF S = {} THEN 0
    ELSE LET k == CHOOSE x \in S : TRUE IN f[k] + SumOver(f, S \ {k})
Sum(f) == SumOver(f, DOMAIN f)

\* the storage as one record
Store ==
    [tokens |-> tokens, tokens_minted |-> tokens_minted,
     token_royalty |-> token_royalty, token_metadata |-> token_metadata,
     tokens_per_owner |-> tokens_per_owner, minters |-> minters]

\* a panic of a handler that has written `st` so far
Panic(st) == [ok |-> FALSE, st |-> st, payout |-> None, need |-> -1]
Return(st) == [ok |-> TRUE, st |-> st, payout |-> None, need |-> -1]

-----------------------------------------------------------------------------
(* Owner *)

\* impl fmt::Display for Owner: the string of an owner; a Lock panics
Owner_to_string(o) ==
    CASE o.kind = "Account" -> [ok |-> TRUE, val |-> o.account]
      [] o.kind = "TokenId" -> [ok |-> TRUE, val |-> ToString(o.token_id)]
      [] o.kind = "CrossKey" -> [ok |-> TRUE, val |-> o.key]
      [] o.kind = "Lock" -> [ok |-> FALSE, val |-> ""]

-----------------------------------------------------------------------------
(* Fraction ledger *)

\* Royalty::new accepts: a non-empty map of positive shares that sum to the
\* whole, at most MAX_LEN_PAYOUT entries, a percentage between 0 and the whole
Royalty_valid(args) ==
    /\ DOMAIN args.split_between # {}
    /\ \A a \in DOMAIN args.split_between : args.split_between[a] > 0
    /\ Sum(args.split_between) = Whole
    /\ Cardinality(DOMAIN args.split_between) <= MAX_LEN_PAYOUT
    /\ args.percentage >= 0
    /\ args.percentage <= Whole

\* SplitOwners::new accepts: the same, with at least two entries
SplitOwners_valid(split_between) ==
    /\ Cardinality(DOMAIN split_between) >= 2
    /\ \A a \in DOMAIN split_between : split_between[a] > 0
    /\ Sum(split_between) = Whole
    /\ Cardinality(DOMAIN split_between) <= MAX_LEN_PAYOUT

Royalty_new(args) == [percentage |-> args.percentage, split_between |-> args.split_between]
SplitOwners_new(split_between) == [split_between |-> split_between]

-----------------------------------------------------------------------------
(* Minting *)

\* TokenMetadata::from_with_size: the metadata with its copies, and its size
TokenMetadata_from_with_size(metadata, copies) ==
    [metadata |-> [data |-> metadata, copies |-> copies], size |-> Len(metadata)]

\* MintbaseStore::storage_cost_to_mint
storage_cost_to_mint(num_tokens, metadata_storage, num_royalties, num_splits) ==
    common
    + metadata_storage * storage_price_per_byte
    + num_royalties * common
    + num_tokens * (token + num_splits * common)

\* MintbaseStore::get_or_make_new_owner_set
get_or_make_new_owner_set(st, owner) ==
    IF owner \in DOMAIN st.tokens_per_owner THEN st.tokens_per_owner[owner] ELSE {}

\* Token::new
Token_new(owner, token_id, metadata_id, royalty_id, split_owners, minter) ==
    [id |-> token_id, owner_id |-> Account(owner), metadata_id |-> metadata_id,
     royalty_id |-> royalty_id, split_owners |-> split_owners, minter |-> minter]

\* the loop of nft_batch_mint: it inserts the tokens tokens_minted + i ..
\* tokens_minted + n - 1, one per round, and adds their ids to owned_set
\* (the rounds write distinct ids: their writes are taken together)
MintLoop(st, owned_set, i, n, owner, royalty_id, checked_split, minter_id) ==
    LET ids == {st.tokens_minted + j : j \in i..(n - 1)}
        minted == [token_id \in DOMAIN st.tokens \cup ids |->
                     IF token_id \in ids
                       THEN Token_new(owner, token_id, st.tokens_minted, royalty_id,
                                      checked_split, minter_id)
                       ELSE st.tokens[token_id]]
    IN [st |-> [st EXCEPT !.tokens = minted], owned_set |-> owned_set \cup ids]

\* MintWrites with the counter advanced by one whatever the count
MintWrites_counter_by_one(st, minter_id, owner, metadata, num_to_mint, checked_royalty, checked_split) ==
    LET owned_set == get_or_make_new_owner_set(st, owner)
        lookup_id == st.tokens_minted
        st1 == IF checked_royalty.some
               THEN [st EXCEPT !.token_royalty =
                        Insert(st.token_royalty, lookup_id,
                               <<num_to_mint, checked_royalty.val>>)]
               ELSE st
        royalty_id == IF checked_royalty.some THEN Some(lookup_id) ELSE None
        st2 == [st1 EXCEPT !.token_metadata =
                   Insert(st1.token_metadata, lookup_id, <<num_to_mint, metadata>>)]
        l == MintLoop(st2, owned_set, 0, num_to_mint, owner, royalty_id,
                      checked_split, minter_id)
        st3 == [l.st EXCEPT !.tokens_minted = l.st.tokens_minted + 1]
    IN [st3 EXCEPT !.tokens_per_owner = Insert(st3.tokens_per_owner, owner, l.owned_set)]

\* MintWrites with one royalty slot, id 0, that every batch writes
MintWrites_royalty_id_zero(st, minter_id, owner, metadata, num_to_mint, checked_royalty, checked_split) ==
    LET owned_set == get_or_make_new_owner_set(st, owner)
        lookup_id == st.tokens_minted
        st1 == IF checked_royalty.some
               THEN [st EXCEPT !.token_royalty =
                        Insert(st.token_royalty, 0,
                               <<num_to_mint, checked_royalty.val>>)]
               ELSE st
        royalty_id == IF checked_royalty.some THEN Some(0) ELSE None
        st2 == [st1 EXCEPT !.token_metadata =
                   Insert(st1.token_metadata, lookup_id, <<num_to_mint, metadata>>)]
        l == MintLoop(st2, owned_set, 0, num_to_mint, owner, royalty_id,
                      checked_split, minter_id)
        st3 == [l.st EXCEPT !.tokens_minted = l.st.tokens_minted + num_to_mint]
    IN [st3 EXCEPT !.tokens_per_owner = Insert(st3.tokens_per_owner, owner, l.owned_set)]

\* MintbaseStore::nft_batch_mint, from its first write on
MintWrites(st, minter_id, owner, metadata, num_to_mint, checked_royalty, checked_split) ==
    LET owned_set == get_or_make_new_owner_set(st, owner)
        lookup_id == st.tokens_minted
        st1 == IF checked_royalty.some
               THEN [st EXCEPT !.token_royalty =
                        Insert(st.token_royalty, lookup_id,
                               <<num_to_mint, checked_royalty.val>>)]
               ELSE st
        royalty_id == IF checked_royalty.some THEN Some(lookup_id) ELSE None
        st2 == [st1 EXCEPT !.token_metadata =
                   Insert(st1.token_metadata, lookup_id, <<num_to_mint, metadata>>)]
        l == MintLoop(st2, owned_set, 0, num_to_mint, owner, royalty_id,
                      checked_split, minter_id)
        st3 == [l.st EXCEPT !.tokens_minted = l.st.tokens_minted + num_to_mint]
    IN [st3 EXCEPT !.tokens_per_owner = Insert(st3.tokens_per_owner, owner, l.owned_set)]

\* the lengths nft_batch_mint takes from its arguments
MintRoyLen(royalty_args) ==
    IF royalty_args.some THEN Cardinality(DOMAIN royalty_args.val.split_between) ELSE 0

\* MintSplitLen with no entry counted for a request without a split map
MintSplitLen_zero(split_owners) ==
    IF split_owners.some THEN Cardinality(DOMAIN split_owners.val) ELSE 0

\* if there is no split map, there still is an owner, thus default to 1
MintSplitLen(split_owners) ==
    IF split_owners.some THEN Cardinality(DOMAIN split_owners.val) ELSE 1

\* MinterCheck that lets every caller through
MinterCheck_none(st, minter_id) == TRUE

\* assert!(self.minters.contains(&minter_id))
MinterCheck(st, minter_id) == minter_id \in st.minters

\* AdmissionCheck that wants more than the estimate
AdmissionCheck_strict(covered_storage, expected_storage_consumption) ==
    covered_storage > expected_storage_consumption

\* assert!(covered_storage >= expected_storage_consumption)
AdmissionCheck(covered_storage, expected_storage_consumption) ==
    covered_storage >= expected_storage_consumption

\* nft_batch_mint that writes the metadata record before it validates the
\* fractions
nft_batch_mint_writes_first(st, pred, deposit, balance, usage, owner, metadata, num_to_mint, royalty_args, split_owners) ==
    IF ~(num_to_mint > 0) THEN Panic(st)
    ELSE IF ~(num_to_mint <= MINT_GAS_LIMIT) THEN Panic(st)
    ELSE IF ~(deposit >= 1) THEN Panic(st)
    ELSE IF ~MinterCheck(st, pred) THEN Panic(st)
    ELSE
      LET covered_storage == balance - usage * storage_price_per_byte
          md == TokenMetadata_from_with_size(metadata, num_to_mint)
          roy_len == MintRoyLen(royalty_args)
          split_len == MintSplitLen(split_owners)
      IN IF ~(roy_len + split_len <= MAX_LEN_PAYOUT) THEN Panic(st)
         ELSE
           LET expected == storage_cost_to_mint(num_to_mint, md.size, roy_len, split_len)
               written == [st EXCEPT !.token_metadata =
                             Insert(st.token_metadata, st.tokens_minted,
                                    <<num_to_mint, md.metadata>>)]
               failed == [Panic(written) EXCEPT !.need = expected]
           IN IF ~AdmissionCheck(covered_storage, expected)
                THEN [Panic(st) EXCEPT !.need = expected]
              ELSE IF royalty_args.some /\ ~Royalty_valid(royalty_args.val) THEN failed
              ELSE IF split_owners.some /\ ~SplitOwners_valid(split_owners.val) THEN failed
              ELSE
                LET checked_royalty == IF royalty_args.some
                                       THEN Some(Royalty_new(royalty_args.val)) ELSE None
                    checked_split == IF split_owners.some
                                     THEN Some(SplitOwners_new(split_owners.val)) ELSE None
                IN [Return(MintWrites(st, pred, owner, md.metadata, num_to_mint,
                                      checked_royalty, checked_split))
                      EXCEPT !.need = expected]

\* MintbaseStore::nft_batch_mint
nft_batch_mint(st, pred, deposit, balance, usage, owner, metadata, num_to_mint, royalty_args, split_owners) ==
    IF ~(num_to_mint > 0) THEN Panic(st)
    ELSE IF ~(num_to_mint <= MINT_GAS_LIMIT) THEN Panic(st)
    ELSE IF ~(deposit >= 1) THEN Panic(st)
    ELSE IF ~MinterCheck(st, pred) THEN Panic(st)
    ELSE
      LET covered_storage == balance - usage * storage_price_per_byte
          md == TokenMetadata_from_with_size(metadata, num_to_mint)
          roy_len == MintRoyLen(royalty_args)
          split_len == MintSplitLen(split_owners)
      IN IF ~(roy_len + split_len <= MAX_LEN_PAYOUT) THEN Panic(st)
         ELSE
           LET expected == storage_cost_to_mint(num_to_mint, md.size, roy_len, split_len)
               failed == [Panic(st) EXCEPT !.need = expected]
           IN IF ~AdmissionCheck(covered_storage, expected) THEN failed
              ELSE IF royalty_args.some /\ ~Royalty_valid(royalty_args.val) THEN failed
              ELSE IF split_owners.some /\ ~SplitOwners_valid(split_owners.val) THEN failed
              ELSE
                LET checked_royalty == IF royalty_args.some
                                       THEN Some(Royalty_new(royalty_args.val)) ELSE None
                    checked_split == IF split_owners.some
                                     THEN Some(SplitOwners_new(split_owners.val)) ELSE None
                IN [Return(MintWrites(st, pred, owner, md.metadata, num_to_mint,
                                      checked_royalty, checked_split))
                      EXCEPT !.need = expected]

-----------------------------------------------------------------------------
(* Minter privileges *)

\* MintbaseStore::assert_store_owner
assert_store_owner(pred) == pred = owner_id

\* grant_minter open to every caller
grant_minter_anyone(st, pred, account_id) ==
    Return([st EXCEPT !.minters = st.minters \cup {account_id}])

\* MintbaseStore::grant_minter
grant_minter(st, pred, account_id) ==
    IF ~assert_store_owner(pred) THEN Panic(st)
    ELSE Return([st EXCEPT !.minters = st.minters \cup {account_id}])

\* revoke_minter that lets the owner be revoked
revoke_minter_any(st, pred, account_id) ==
    IF ~assert_store_owner(pred) THEN Panic(st)
    ELSE IF account_id \notin st.minters THEN Panic(st)
    ELSE Return([st EXCEPT !.minters = st.minters \ {account_id}])

\* MintbaseStore::revoke_minter
revoke_minter(st, pred, account_id) ==
    IF ~assert_store_owner(pred) THEN Panic(st)
    ELSE IF ~(account_id # owner_id) THEN Panic(st)
    ELSE IF account_id \notin st.minters THEN Panic(st)
    ELSE Return([st EXCEPT !.minters = st.minters \ {account_id}])

-----------------------------------------------------------------------------
(* Tokens *)

\* MintbaseStore::nft_token: the token, if there is one
nft_token(st, token_id) ==
    IF token_id \in DOMAIN st.tokens THEN Some(st.tokens[token_id]) ELSE None

\* Token::is_loaned: the owner is suspended by a cross-contract operation
is_loaned(tok) == tok.owner_id.kind = "Lock"

\* Token::is_pred_owner: the owner's string is the caller; a Lock panics
is_pred_owner(tok, pred) ==
    LET s == Owner_to_string(tok.owner_id)
    IN [ok |-> s.ok, val |-> s.ok /\ s.val = pred]

\* the owner index without, and with, a token
OwnerSetRemove(tpo, a, token_id) ==
    IF a \in DOMAIN tpo THEN [tpo EXCEPT ![a] = @ \ {token_id}] ELSE tpo
OwnerSetAdd(tpo, a, token_id) ==
    Insert(tpo, a, (IF a \in DOMAIN tpo THEN tpo[a] ELSE {}) \cup {token_id})

\* MintbaseStore::nft_transfer: the owner (approvals are not modelled) hands
\* the token to receiver_id; the split owners are consumed
nft_transfer(st, pred, receiver_id, token_id) ==
    IF token_id \notin DOMAIN st.tokens THEN Panic(st)
    ELSE LET tok == st.tokens[token_id] IN
      IF is_loaned(tok) THEN Panic(st)
      ELSE IF ~is_pred_owner(tok, pred).val THEN Panic(st)
      ELSE IF tok.owner_id.kind # "Account" THEN Panic(st)
      ELSE
        LET from == tok.owner_id.account
            tpo == OwnerSetAdd(OwnerSetRemove(st.tokens_per_owner, from, token_id),
                               receiver_id, token_id)
            moved == [tok EXCEPT !.owner_id = Account(receiver_id),
                                 !.split_owners = None]
        IN Return([st EXCEPT !.tokens = Insert(st.tokens, token_id, moved),
                             !.tokens_per_owner = tpo])

-----------------------------------------------------------------------------
(* Payout *)

\* MintbaseStore::get_token_royalty
get_token_royalty(st, token_id) ==
    LET royalty_id == st.tokens[token_id].royalty_id
    IN IF royalty_id.some
         THEN IF royalty_id.val \in DOMAIN st.token_royalty
                THEN Some(st.token_royalty[royalty_id.val][2])
                ELSE None
         ELSE None

\* OwnershipFractions::new
OwnershipFractions_new(owner, royalty, split_owners) ==
    [owner |-> owner, royalty |-> royalty, split_owners |-> split_owners]

\* floor(balance * p * q / Whole^2), with every intermediate product small:
\* with balance * p = h * Whole + l, it is floor((h * q + floor(l * q / Whole)) / Whole)
ScaleTwice(balance, p, q) ==
    LET x == balance * p
        h == x \div Whole
        l == x % Whole
    IN (h * q + (l * q) \div Whole) \div Whole

\* OwnershipFractions::into_payout: royalties off the top, splits of what
\* remains, the remainder to the owner; one entry per address
into_payout(fr, balance) ==
    LET roy == IF fr.royalty.some THEN fr.royalty.val.split_between ELSE EmptyMap
        perc == IF fr.royalty.some THEN fr.royalty.val.percentage ELSE 0
        spl == IF fr.split_owners.some THEN fr.split_owners.val.split_between ELSE EmptyMap
        royAmt == [a \in DOMAIN roy |-> ScaleTwice(balance, perc, roy[a])]
        remaining == balance - Sum(royAmt)
        splAmt == [a \in DOMAIN spl |-> (remaining * spl[a]) \div Whole]
        residual == balance - Sum(royAmt) - Sum(splAmt)
        keys == DOMAIN roy \cup DOMAIN spl
                  \cup (IF ~fr.split_owners.some \/ residual > 0 THEN {fr.owner} ELSE {})
    IN [a \in keys |->
          (IF a \in DOMAIN roy THEN royAmt[a] ELSE 0)
          + (IF a \in DOMAIN spl THEN splAmt[a] ELSE 0)
          + (IF a = fr.owner THEN residual ELSE 0)]

\* the first n keys of a payout
RECURSIVE FirstKeys(_, _)
FirstKeys(S, n) ==
    IF n = 0 \/ S = {} THEN {}
    ELSE LET k == CHOOSE x \in S : TRUE IN {k} \cup FirstKeys(S \ {k}, n - 1)

\* nft_payout that cuts a payout that is too long down to max_len_payout
\* entries
nft_payout_truncating(st, token_id, balance, max_len_payout) ==
    LET t == nft_token(st, token_id) IN
    IF ~t.some THEN Panic(st)
    ELSE IF t.val.owner_id.kind # "Account" THEN Panic(st)
    ELSE IF ~Owner_to_string(t.val.owner_id).ok THEN Panic(st)
    ELSE
      LET payout == into_payout(
                      OwnershipFractions_new(Owner_to_string(t.val.owner_id).val,
                                             get_token_royalty(st, token_id),
                                             t.val.split_owners),
                      balance)
          kept == FirstKeys(DOMAIN payout, max_len_payout)
      IN [Return(st) EXCEPT !.payout = Some([a \in kept |-> payout[a]])]

\* nft_payout without the match on the owner
nft_payout_any_owner(st, token_id, balance, max_len_payout) ==
    LET t == nft_token(st, token_id) IN
    IF ~t.some THEN Panic(st)
    ELSE IF ~Owner_to_string(t.val.owner_id).ok THEN Panic(st)
    ELSE
      LET payout == into_payout(
                      OwnershipFractions_new(Owner_to_string(t.val.owner_id).val,
                                             get_token_royalty(st, token_id),
                                             t.val.split_owners),
                      balance)
          payout_len == Cardinality(DOMAIN payout)
      IN IF max_len_payout < payout_len THEN Panic(st)
         ELSE [Return(st) EXCEPT !.payout = Some(payout)]

\* nft_payout whose match lets a Lock through, as the account it locks
nft_payout_lock_as_account(st, token_id, balance, max_len_payout) ==
    LET t == nft_token(st, token_id) IN
    IF ~t.some THEN Panic(st)
    ELSE IF t.val.owner_id.kind \notin {"Account", "Lock"} THEN Panic(st)
    ELSE
      LET owner == IF t.val.owner_id.kind = "Lock" THEN t.val.owner_id.locked
                   ELSE t.val.owner_id.account
          payout == into_payout(
                      OwnershipFractions_new(owner,
                                             get_token_royalty(st, token_id),
                                             t.val.split_owners),
                      balance)
          payout_len == Cardinality(DOMAIN payout)
      IN IF max_len_payout < payout_len THEN Panic(st)
         ELSE [Return(st) EXCEPT !.payout = Some(payout)]

\* nft_payout that leaves the royalty of the token out of the fractions
nft_payout_no_royalty(st, token_id, balance, max_len_payout) ==
    LET t == nft_token(st, token_id) IN
    IF ~t.some THEN Panic(st)
    ELSE IF t.val.owner_id.kind # "Account" THEN Panic(st)
    ELSE IF ~Owner_to_string(t.val.owner_id).ok THEN Panic(st)
    ELSE
      LET payout == into_payout(
                      OwnershipFractions_new(Owner_to_string(t.val.owner_id).val,
                                             None,
                                             t.val.split_owners),
                      balance)
          payout_len == Cardinality(DOMAIN payout)
      IN IF max_len_payout < payout_len THEN Panic(st)
         ELSE [Return(st) EXCEPT !.payout = Some(payout)]

\* nft_payout that also refuses a payout of exactly max_len_payout entries
nft_payout_ceiling_exclusive(st, token_id, balance, max_len_payout) ==
    LET t == nft_token(st, token_id) IN
    IF ~t.some THEN Panic(st)
    ELSE IF t.val.owner_id.kind # "Account" THEN Panic(st)
    ELSE IF ~Owner_to_string(t.val.owner_id).ok THEN Panic(st)
    ELSE
      LET payout == into_payout(
                      OwnershipFractions_new(Owner_to_string(t.val.owner_id).val,
                                             get_token_royalty(st, token_id),
                                             t.val.split_owners),
                      balance)
          payout_len == Cardinality(DOMAIN payout)
      IN IF max_len_payout <= payout_len THEN Panic(st)
         ELSE [Return(st) EXCEPT !.payout = Some(payout)]

\* MintbaseStore::nft_payout
nft_payout(st, token_id, balance, max_len_payout) ==
    LET t == nft_token(st, token_id) IN
    IF ~t.some THEN Panic(st)
    ELSE IF t.val.owner_id.kind # "Account" THEN Panic(st)
    ELSE IF ~Owner_to_string(t.val.owner_id).ok THEN Panic(st)
    ELSE
      LET payout == into_payout(
                      OwnershipFractions_new(Owner_to_string(t.val.owner_id).val,
                                             get_token_royalty(st, token_id),
                                             t.val.split_owners),
                      balance)
          payout_len == Cardinality(DOMAIN payout)
      IN IF max_len_payout < payout_len THEN Panic(st)
         ELSE [Return(st) EXCEPT !.payout = Some(payout)]

\* near_sdk::assert_one_yocto
assert_one_yocto(deposit) == deposit = 1

\* nft_transfer_payout that returns the payout and leaves out the transfer
nft_transfer_payout_no_transfer(st, pred, deposit, receiver_id, token_id, balance, max_len_payout) ==
    IF ~assert_one_yocto(deposit) THEN Panic(st)
    ELSE LET p == nft_payout(st, token_id, balance, max_len_payout) IN
      IF ~p.ok THEN Panic(st)
      ELSE [Return(st) EXCEPT !.payout = p.payout]

\* nft_transfer_payout that transfers first and computes the payout on the
\* token as the transfer leaves it
nft_transfer_payout_pays_after(st, pred, deposit, receiver_id, token_id, balance, max_len_payout) ==
    IF ~assert_one_yocto(deposit) THEN Panic(st)
    ELSE LET tr == nft_transfer(st, pred, receiver_id, token_id) IN
      IF ~tr.ok THEN Panic(tr.st)
      ELSE LET p == nft_payout(tr.st, token_id, balance, max_len_payout) IN
        IF ~p.ok THEN Panic(tr.st)
        ELSE [Return(tr.st) EXCEPT !.payout = p.payout]

\* MintbaseStore::nft_transfer_payout
nft_transfer_payout(st, pred, deposit, receiver_id, token_id, balance, max_len_payout) ==
    IF ~assert_one_yocto(deposit) THEN Panic(st)
    ELSE LET p == nft_payout(st, token_id, balance, max_len_payout) IN
      IF ~p.ok THEN Panic(st)
      ELSE LET tr == nft_transfer(st, pred, receiver_id, token_id) IN
        IF ~tr.ok THEN Panic(tr.st)
        ELSE [Return(tr.st) EXCEPT !.payout = p.payout]

-----------------------------------------------------------------------------
(* Split owners *)

\* SplitOne without the assertion that the token has no split owners
SplitOne_no_empty_check(st, pred, token_id, splits) ==
    IF token_id \notin DOMAIN st.tokens THEN Panic(st)
    ELSE LET tok == st.tokens[token_id] IN
      IF ~(~is_loaned(tok)) THEN Panic(st)
      ELSE IF ~is_pred_owner(tok, pred).val THEN Panic(st)
      ELSE
        LET roy_len == IF tok.royalty_id.some
                       THEN Cardinality(DOMAIN
                              st.token_royalty[tok.royalty_id.val][2].split_between)
                       ELSE 0
        IN IF ~(Cardinality(DOMAIN splits.split_between) + roy_len <= MAX_LEN_PAYOUT)
             THEN Panic(st)
           ELSE Return([st EXCEPT !.tokens =
                          Insert(st.tokens, token_id,
                                 [tok EXCEPT !.split_owners = Some(splits)])])

\* SplitOne without the assertion on the length of the payout
SplitOne_no_length_check(st, pred, token_id, splits) ==
    IF token_id \notin DOMAIN st.tokens THEN Panic(st)
    ELSE LET tok == st.tokens[token_id] IN
      IF ~(~is_loaned(tok)) THEN Panic(st)
      ELSE IF ~is_pred_owner(tok, pred).val THEN Panic(st)
      ELSE IF ~(~tok.split_owners.some) THEN Panic(st)
      ELSE Return([st EXCEPT !.tokens =
                     Insert(st.tokens, token_id,
                            [tok EXCEPT !.split_owners = Some(splits)])])

\* the body of the loop of set_split_owners, for one token
SplitOne(st, pred, token_id, splits) ==
    IF token_id \notin DOMAIN st.tokens THEN Panic(st)
    ELSE LET tok == st.tokens[token_id] IN
      IF ~(~is_loaned(tok)) THEN Panic(st)
      ELSE IF ~is_pred_owner(tok, pred).val THEN Panic(st)
      ELSE IF ~(~tok.split_owners.some) THEN Panic(st)
      ELSE
        LET roy_len == IF tok.royalty_id.some
                       THEN Cardinality(DOMAIN
                              st.token_royalty[tok.royalty_id.val][2].split_between)
                       ELSE 0
        IN IF ~(Cardinality(DOMAIN splits.split_between) + roy_len <= MAX_LEN_PAYOUT)
             THEN Panic(st)
           ELSE Return([st EXCEPT !.tokens =
                          Insert(st.tokens, token_id,
                                 [tok EXCEPT !.split_owners = Some(splits)])])

\* token_ids.iter().for_each(..): the tokens in order, up to the first panic
RECURSIVE SplitLoop(_, _, _, _)
SplitLoop(st, pred, token_ids, splits) ==
    IF token_ids = <<>> THEN Return(st)
    ELSE LET r == SplitOne(st, pred, Head(token_ids), splits)
         IN IF ~r.ok THEN r ELSE SplitLoop(r.st, pred, Tail(token_ids), splits)

\* set_split_owners that takes the split map as it comes, whatever its
\* entries
set_split_owners_unvalidated(st, pred, deposit, token_ids, split_between) ==
    IF ~(token_ids # <<>>) THEN Panic(st)
    ELSE
      LET storage_cost == (common * Cardinality(DOMAIN split_between)) * Len(token_ids)
      IN IF ~(deposit >= storage_cost) THEN Panic(st)
         ELSE SplitLoop(st, pred, token_ids, SplitOwners_new(split_between))

\* MintbaseStore::set_split_owners
set_split_owners(st, pred, deposit, token_ids, split_between) ==
    IF ~(token_ids # <<>>) THEN Panic(st)
    ELSE IF ~(Cardinality(DOMAIN split_between) >= 2) THEN Panic(st)
    ELSE
      LET storage_cost == (common * Cardinality(DOMAIN split_between)) * Len(token_ids)
      IN IF ~(deposit >= storage_cost) THEN Panic(st)
         ELSE IF ~SplitOwners_valid(split_between) THEN Panic(st)
         ELSE SplitLoop(st, pred, token_ids, SplitOwners_new(split_between))

-----------------------------------------------------------------------------
(* Inputs *)

\* royalty arguments: 10% to bob; 33.33% between alice and carol, which
\* rounds; 50% between 49 receivers; shares that do not add to the whole
R10 == [percentage |-> 1000, split_between |-> [a \in {"bob"} |-> Whole]]
R33 == [percentage |-> 3333,
        split_between |-> [a \in {"alice", "carol"} |->
                             IF a = "alice" THEN 3333 ELSE 6667]]
R49 == [percentage |-> 5000,
        split_between |-> [a \in {"r" \o ToString(i) : i \in 1..49} |->
                             IF a = "r1" THEN 208 ELSE 204]]
RBad == [percentage |-> 1000, split_between |-> [a \in {"bob"} |-> 9999]]

\* split maps: two halves; three thirds, alice among them; one entry; shares
\* that do not add to the whole
S2 == [a \in {"carol", "dave"} |-> 5000]
S3 == [a \in {"alice", "bob", "carol"} |-> IF a = "carol" THEN 3334 ELSE 3333]
S1 == [a \in {"carol"} |-> Whole]
SBad == [a \in {"carol", "dave"} |-> IF a = "carol" THEN 5000 ELSE 4000]

MintRequest(n, deposit, balance, usage, metadata, royalty, split) ==
    [num_to_mint |-> n, deposit |-> deposit, balance |-> balance, usage |-> usage,
     owner_id |-> "alice", metadata |-> metadata, royalty_args |-> royalty,
     split_owners |-> split]

\* the requests to nft_batch_mint: the account balance covers the storage in
\* use (the host keeps balance >= usage * price per byte)
MintRequests ==
    \* counts out of range, no deposit
    { MintRequest(n, 1, 1000, 4, <<>>, None, None) : n \in {0, MINT_GAS_LIMIT + 1} }
    \cup { MintRequest(1, 0, 1000, 4, <<>>, None, None) }
    \* one plain token needs 13: covered 12, 13, 992
    \cup { MintRequest(1, 1, b, 4, <<>>, None, None) : b \in {20, 21, 1000} }
    \* royalties and splits at mint time, with some metadata
    \cup { MintRequest(2, 1, 1000, 0, <<1, 2>>, Some(R10), None),
           MintRequest(1, 1, 1000, 0, <<1, 2>>, Some(R33), Some(S3)),
           MintRequest(2, 1, 1000, 0, <<>>, Some(R49), None) }
    \* too long a payout, invalid fractions
    \cup { MintRequest(1, 1, 1000, 0, <<>>, Some(R49), Some(S2)),
           MintRequest(1, 1, 1000, 0, <<>>, Some(RBad), None),
           MintRequest(1, 1, 1000, 0, <<>>, None, Some(S1)),
           MintRequest(1, 1, 1000, 0, <<>>, None, Some(SBad)) }

\* the requests that mint the tokens of the sales: a plain token, two tokens
\* with a royalty, two tokens with a royalty and a split, two tokens with the
\* longest royalty
SaleMintRequests ==
    { MintRequest(1, 1, 1000, 4, <<>>, None, None),
      MintRequest(2, 1, 1000, 0, <<1, 2>>, Some(R10), None),
      MintRequest(2, 1, 1000, 0, <<1, 2>>, Some(R33), Some(S3)),
      MintRequest(2, 1, 1000, 0, <<>>, Some(R49), None) }

\* the requests that mint batch after batch: a plain token, one or two tokens
\* with a royalty, a token with another royalty and a split, and a split map
\* of one entry
LedgerMintRequests ==
    { MintRequest(1, 1, 1000, 4, <<>>, None, None),
      MintRequest(1, 1, 1000, 0, <<1, 2>>, Some(R10), None),
      MintRequest(2, 1, 1000, 0, <<1, 2>>, Some(R10), None),
      MintRequest(1, 1, 1000, 0, <<1, 2>>, Some(R33), Some(S3)),
      MintRequest(1, 1, 1000, 0, <<>>, None, Some(S1)) }

\* the requests of large batches: counts at and around the documented and
\* the asserted limit, with and without deposit, funds, royalty and split
BatchMintRequests ==
    { MintRequest(n, deposit, balance, 0, <<>>, royalty, split) :
        n \in {0, DOC_MINT_LIMIT, DOC_MINT_LIMIT + 1, MINT_GAS_LIMIT, MINT_GAS_LIMIT + 1},
        deposit \in {0, 1},
        balance \in {100, 100000},
        royalty \in {None, Some(R10)},
        split \in {None, Some(S2)} }

SplitRequest(token_ids, deposit, split_between) ==
    [token_ids |-> token_ids, deposit |-> deposit, split_between |-> split_between]

\* the requests to set_split_owners: two halves on no, one or two tokens cost
\* 6 a token; a token that is not there; one entry; shares off the whole
SplitRequests ==
    { SplitRequest(ids, 12, S2) : ids \in {<<>>, <<0>>, <<1>>, <<0, 1>>, <<1, MaxTokens>>} }
    \cup { SplitRequest(<<0, 1>>, 11, S2),
           SplitRequest(<<0>>, 12, S1),
           SplitRequest(<<0>>, 12, SBad) }

\* the requests of bob, who owns a token only once he has bought it
BobSplitRequests == { SplitRequest(ids, 12, S2) : ids \in {<<0>>, <<1>>} }

\* the questions to nft_payout: an amount that divides, one that does not, a
\* ceiling of one entry
PayoutQueries ==
    { [balance |-> 1000, max_len_payout |-> MAX_LEN_PAYOUT],
      [balance |-> 7, max_len_payout |-> MAX_LEN_PAYOUT],
      [balance |-> 1000, max_len_payout |-> 1] }

\* the sales: one yocto attached or two, a ceiling of one entry
TransferQueries ==
    { [deposit |-> 1, max_len_payout |-> MAX_LEN_PAYOUT],
      [deposit |-> 1, max_len_payout |-> 1],
      [deposit |-> 2, max_len_payout |-> MAX_LEN_PAYOUT] }

\* token ids of requests: the tokens there can be, and one there never is
TokenIds == 0..MaxTokens

\* a foreign token
ForeignKey == "0:other.near"

-----------------------------------------------------------------------------
(* The state machine *)

NoCall == [op |-> "none", ok |-> TRUE, pred |-> "", args |-> <<>>,
           exit |-> <<>>, payout |-> None, need |-> -1]

Call(op, pred, args, r) ==
    [op |-> op, ok |-> r.ok, pred |-> pred, args |-> args, exit |-> r.st,
     payout |-> r.payout, need |-> r.need]

\* the host commits the writes of a call that returns, and drops those of a
\* call that panics
Commit(r) ==
    LET st == IF r.ok THEN r.st ELSE Store
    IN /\ tokens' = st.tokens
       /\ tokens_minted' = st.tokens_minted
       /\ token_royalty' = st.token_royalty
       /\ token_metadata' = st.token_metadata
       /\ tokens_per_owner' = st.tokens_per_owner
       /\ minters' = st.minters

\* MintbaseStore::new: no tokens, the owner is a minter
Init ==
    /\ tokens = EmptyMap
    /\ tokens_minted = 0
    /\ token_royalty = EmptyMap
    /\ token_metadata = EmptyMap
    /\ tokens_per_owner = EmptyMap
    /\ minters = {owner_id}
    /\ last = NoCall

\* a call of nft_batch_mint; the counter stays within MaxTokens
Mint(pred, req) ==
    /\ \/ tokens_minted + req.num_to_mint <= MaxTokens
       \/ req.num_to_mint > MINT_GAS_LIMIT
    /\ LET r == nft_batch_mint(Store, pred, req.deposit, req.balance, req.usage,
                               req.owner_id, req.metadata, req.num_to_mint,
                               req.royalty_args, req.split_owners)
       IN Commit(r) /\ last' = Call("nft_batch_mint", pred, req, r)

NftBatchMint == \E pred \in {"store", "alice"}, req \in MintRequests : Mint(pred, req)

GrantMinter ==
    \E pred \in Accounts, account_id \in {"store", "alice"} :
      LET r == grant_minter(Store, pred, account_id)
      IN Commit(r) /\ last' = Call("grant_minter", pred, [account_id |-> account_id], r)

RevokeMinter ==
    \E pred \in Accounts, account_id \in {"store", "alice"} :
      LET r == revoke_minter(Store, pred, account_id)
      IN Commit(r) /\ last' = Call("revoke_minter", pred, [account_id |-> account_id], r)

SaleMint == \E req \in SaleMintRequests : Mint(owner_id, req)

SetSplitOwners ==
    \E pred \in {"alice", "bob"}, req \in SplitRequests :
      /\ pred = "bob" => req \in BobSplitRequests
      /\ LET r == set_split_owners(Store, pred, req.deposit, req.token_ids,
                                   req.split_between)
         IN Commit(r) /\ last' = Call("set_split_owners", pred, req, r)

NftPayout ==
    \E token_id \in TokenIds, q \in PayoutQueries :
      LET r == nft_payout(Store, token_id, q.balance, q.max_len_payout)
      IN Commit(r)
         /\ last' = Call("nft_payout", "",
                         [token_id |-> token_id, balance |-> q.balance,
                          max_len_payout |-> q.max_len_payout], r)

NftTransferPayout ==
    \E pred \in {"alice", "bob"}, token_id \in TokenIds, q \in TransferQueries :
      LET r == nft_transfer_payout(Store, pred, q.deposit, "bob", token_id,
                                   1000, q.max_len_payout)
      IN Commit(r)
         /\ last' = Call("nft_transfer_payout", pred,
                         [deposit |-> q.deposit, receiver_id |-> "bob",
                          token_id |-> token_id, balance |-> 1000,
                          max_len_payout |-> q.max_len_payout], r)

\* the owner of a token as the compose and cross-contract collaborators
\* change it: an account's token becomes owned by another token, here or on
\* another contract, or is locked for a callback; later it returns to an account
OwnerIs(token_id, o) ==
    /\ tokens' = [tokens EXCEPT ![token_id].owner_id = o]
    /\ UNCHANGED <<tokens_minted, token_royalty, token_metadata, tokens_per_owner, minters>>
    /\ last' = [NoCall EXCEPT !.op = "owner", !.args = [token_id |-> token_id]]

Compose ==
    \E token_id \in DOMAIN tokens, parent \in DOMAIN tokens :
      /\ tokens[token_id].owner_id.kind = "Account"
      /\ parent # token_id
      /\ tokens[parent].owner_id.kind = "Account"
      /\ OwnerIs(token_id, TokenId(parent))

CrossCompose ==
    \E token_id \in DOMAIN tokens :
      /\ tokens[token_id].owner_id.kind = "Account"
      /\ OwnerIs(token_id, CrossKey(ForeignKey))

LockToken ==
    \E token_id \in DOMAIN tokens :
      /\ tokens[token_id].owner_id.kind = "Account"
      /\ OwnerIs(token_id, Lock(tokens[token_id].owner_id.account))

Unlock ==
    \E token_id \in DOMAIN tokens :
      /\ tokens[token_id].owner_id.kind = "Lock"
      /\ OwnerIs(token_id, Account(tokens[token_id].owner_id.locked))

Uncompose ==
    \E token_id \in DOMAIN tokens :
      /\ tokens[token_id].owner_id.kind \in {"TokenId", "CrossKey"}
      /\ OwnerIs(token_id, Account("alice"))

\* minting and the minters
Next ==
    \/ NftBatchMint
    \/ GrantMinter
    \/ RevokeMinter

Spec == Init /\ [][Next]_vars

\* the sales of minted tokens
NextSale ==
    \/ SaleMint
    \/ SetSplitOwners
    \/ NftPayout
    \/ NftTransferPayout
    \/ Compose
    \/ CrossCompose
    \/ LockToken
    \/ Unlock
    \/ Uncompose

SpecSale == Init /\ [][NextSale]_vars

\* batches minted one after the other, with split owners set and sales in
\* between
LedgerMint == \E req \in LedgerMintRequests : Mint(owner_id, req)

NextLedger ==
    \/ LedgerMint
    \/ SetSplitOwners
    \/ NftTransferPayout

SpecLedger == Init /\ [][NextLedger]_vars

\* one large batch: a call is enabled while its count fits under the limit
\* that the code asserts, or is refused for its count
BatchMint ==
    \E pred \in {"store", "alice"}, req \in BatchMintRequests :
      /\ \/ tokens_minted + req.num_to_mint <= MINT_GAS_LIMIT
         \/ req.num_to_mint > MINT_GAS_LIMIT
      /\ LET r == nft_batch_mint(Store, pred, req.deposit, req.balance, req.usage,
                                 req.owner_id, req.metadata, req.num_to_mint,
                                 req.royalty_args, req.split_owners)
         IN Commit(r) /\ last' = Call("nft_batch_mint", pred, req, r)

NextBatch ==
    \/ BatchMint

SpecBatch == Init /\ [][NextBatch]_vars

-----------------------------------------------------------------------------
(* Properties *)

\* the amounts asked of nft_payout in the properties: zero, amounts the
\* shares do not divide, one they do
Balances == {0, 1, 7, 999, 1000}

IsMint(c) == c.op = "nft_batch_mint"

\* covered funds of a mint request: balance minus storage in use at its price
Covered(req) == req.balance - req.usage * storage_price_per_byte

\* C1: a successful nft_payout on a token owned by an account returns amounts,
\* none negative, that sum to exactly the balance, for every balance, also 0
\* and balances the shares do not divide; what rounding leaves is the owner's.
\* So for every token and balance from here, and for the payout just returned.
C1_PayoutSumsToBalance ==
    /\ \A token_id \in DOMAIN tokens, balance \in Balances :
         LET r == nft_payout(Store, token_id, balance, MAX_LEN_PAYOUT)
         IN r.ok =>
              /\ tokens[token_id].owner_id.kind = "Account"
              /\ Sum(r.payout.val) = balance
              /\ \A a \in DOMAIN r.payout.val : r.payout.val[a] >= 0
              /\ LET o == tokens[token_id].owner_id.account
                     others == SumOver(r.payout.val, DOMAIN r.payout.val \ {o})
                 IN others < balance => /\ o \in DOMAIN r.payout.val
                                        /\ r.payout.val[o] = balance - others
    /\ (last.op \in {"nft_payout", "nft_transfer_payout"} /\ last.ok) =>
         Sum(last.payout.val) = last.args.balance

\* a payout of 7 between a royalty and a split that floors every share: the
\* owner alice gets her shares and the remainder
C1_Witness ==
    /\ last.op = "nft_payout"
    /\ last.ok
    /\ last.args.balance = 7
    /\ DOMAIN last.payout.val = {"alice", "bob", "carol"}
    /\ last.payout.val["alice"] = 3

\* C2: a successful nft_batch_mint of n tokens started at tokens_minted = c
\* creates exactly the tokens c .. c+n-1, none of which existed, leaves the
\* others as they were and tokens_minted = c+n; the ids in existence are
\* always 0 .. tokens_minted-1.
C2_MintContiguous ==
    [][/\ DOMAIN tokens = 0..(tokens_minted - 1)
       /\ DOMAIN tokens' = 0..(tokens_minted' - 1)
       /\ (IsMint(last') /\ last'.ok) =>
            LET c == tokens_minted
                n == last'.args.num_to_mint
            IN /\ (c..(c + n - 1)) \cap DOMAIN tokens = {}
               /\ DOMAIN tokens' = DOMAIN tokens \cup (c..(c + n - 1))
               /\ \A t \in c..(c + n - 1) : tokens'[t].id = t
               /\ \A t \in DOMAIN tokens : tokens'[t] = tokens[t]
               /\ tokens_minted' = c + n
       /\ ~(IsMint(last') /\ last'.ok) => tokens_minted' = tokens_minted]_vars

\* a second batch, minted after a first one
C2_Witness ==
    /\ IsMint(last)
    /\ last.ok
    /\ last.args.num_to_mint = 1
    /\ tokens_minted = 2
    /\ tokens[1].metadata_id = 1

\* C3: an nft_batch_mint that fails any of its checks has written nothing
\* when it fails, and leaves tokens, tokens_minted, token_royalty,
\* token_metadata, tokens_per_owner and minters as they were.
C3_FailedMintWritesNothing ==
    [][(IsMint(last') /\ ~last'.ok) =>
          /\ last'.exit = Store
          /\ UNCHANGED <<tokens, tokens_minted, token_royalty, token_metadata,
                         tokens_per_owner, minters>>]_vars

\* a mint that passes admission and fails on its fractions, the last check,
\* in a store that holds tokens
C3_Witness ==
    /\ IsMint(last)
    /\ ~last.ok
    /\ last.need >= 0
    /\ Covered(last.args) >= last.need
    /\ last.args.split_owners.some
    /\ tokens_minted > 0

\* the preconditions of a mint other than admission
MintOtherPreconditions(mntrs, pred, req) ==
    /\ req.num_to_mint > 0
    /\ req.num_to_mint <= MINT_GAS_LIMIT
    /\ req.deposit >= 1
    /\ pred \in mntrs
    /\ (IF req.royalty_args.some
          THEN Cardinality(DOMAIN req.royalty_args.val.split_between) ELSE 0)
       + (IF req.split_owners.some
            THEN Cardinality(DOMAIN req.split_owners.val) ELSE 1) <= MAX_LEN_PAYOUT
    /\ req.royalty_args.some => Royalty_valid(req.royalty_args.val)
    /\ req.split_owners.some => SplitOwners_valid(req.split_owners.val)

\* C4: a mint whose other preconditions hold creates tokens if and only if
\* the covered funds are at least the cost estimate.
C4_AdmissionIffCovered ==
    [][(IsMint(last') /\ MintOtherPreconditions(minters, last'.pred, last'.args)) =>
          /\ last'.need >= 0
          /\ (Covered(last'.args) >= last'.need) =>
                (last'.ok /\ tokens_minted' = tokens_minted + last'.args.num_to_mint)
          /\ (Covered(last'.args) < last'.need) =>
                (~last'.ok /\ tokens' = tokens /\ tokens_minted' = tokens_minted)]_vars

\* a mint admitted with covered funds equal to the estimate
C4_Witness ==
    /\ IsMint(last)
    /\ last.ok
    /\ Covered(last.args) = last.need
    /\ tokens_minted > 0

\* the estimate of a mint request with num_splits split entries
EstimateWith(req, num_splits) ==
    common
    + Len(req.metadata) * storage_price_per_byte
    + (IF req.royalty_args.some
         THEN Cardinality(DOMAIN req.royalty_args.val.split_between) ELSE 0) * common
    + req.num_to_mint * (token + num_splits * common)

\* C5 as claimed: the estimate counts the split entries attached to each
\* token at mint time, none when the request carries no split map.
C5_EstimateCountsAttachedSplits ==
    (IsMint(last) /\ last.need >= 0) =>
       last.need = EstimateWith(last.args,
                     IF last.args.split_owners.some
                       THEN Cardinality(DOMAIN last.args.split_owners.val) ELSE 0)

\* C5: the estimate nft_batch_mint compares with covered funds is common +
\* metadata_size * price_per_byte + num_royalty_entries * common + num_tokens *
\* (token + num_split_entries * common), where num_split_entries is the number
\* of split entries of the request, and 1 when the request has no split map.
C5_EstimateDefaultsToOneSplit ==
    (IsMint(last) /\ last.need >= 0) =>
       last.need = EstimateWith(last.args,
                     IF last.args.split_owners.some
                       THEN Cardinality(DOMAIN last.args.split_owners.val) ELSE 1)

\* a mint without a split map, with a royalty and metadata, that was admitted
C5_Witness ==
    /\ IsMint(last)
    /\ last.ok
    /\ ~last.args.split_owners.some
    /\ last.args.royalty_args.some
    /\ last.args.metadata # <<>>
    /\ last.args.num_to_mint = 2

\* the token ids of a list
Listed(token_ids) == {token_ids[i] : i \in 1..Len(token_ids)}

\* C6: set_split_owners on a token that has split owners fails and leaves
\* them as they were, in what the call wrote and in what is kept; split
\* owners once set stay until a sale of the token clears them.
C6_SplitSetOnce ==
    [][/\ (last'.op = "set_split_owners"
           /\ \E t \in Listed(last'.args.token_ids) \cap DOMAIN tokens :
                tokens[t].split_owners.some) =>
            /\ ~last'.ok
            /\ \A t \in DOMAIN tokens :
                 tokens[t].split_owners.some =>
                   /\ last'.exit.tokens[t].split_owners = tokens[t].split_owners
                   /\ tokens'[t].split_owners = tokens[t].split_owners
       /\ \A t \in DOMAIN tokens :
            (tokens[t].split_owners.some
             /\ tokens'[t].split_owners # tokens[t].split_owners) =>
               /\ tokens'[t].split_owners = None
               /\ last'.op = "nft_transfer_payout"
               /\ last'.ok
               /\ last'.args.token_id = t]_vars

\* alice, who owns tokens 0 and 1, asks for a split on both with the deposit
\* for both; token 1 has split owners, token 0 has none
C6_Witness ==
    /\ last.op = "set_split_owners"
    /\ ~last.ok
    /\ last.pred = "alice"
    /\ last.args = SplitRequest(<<0, 1>>, 12, S2)
    /\ DOMAIN tokens = {0, 1}
    /\ tokens[0].owner_id = Account("alice")
    /\ tokens[1].owner_id = Account("alice")
    /\ ~tokens[0].split_owners.some
    /\ tokens[1].split_owners.some

\* C7: revoke_minter of the store owner fails whoever calls it and leaves the
\* minters as they were; the store owner is always a minter.
C7_OwnerStaysMinter ==
    [][/\ owner_id \in minters
       /\ owner_id \in minters'
       /\ (last'.op = "revoke_minter" /\ last'.args.account_id = owner_id) =>
            /\ ~last'.ok
            /\ last'.exit.minters = minters
            /\ minters' = minters]_vars

\* the store owner asks to revoke itself, with another minter in the set
C7_Witness ==
    /\ last.op = "revoke_minter"
    /\ last.pred = owner_id
    /\ last.args.account_id = owner_id
    /\ ~last.ok
    /\ minters = {owner_id, "alice"}

\* C8: grant_minter and revoke_minter called by another account than the
\* store owner fail and leave the minters as they were; the minters change
\* only in a grant_minter or revoke_minter of the store owner.
C8_OnlyOwnerChangesMinters ==
    [][/\ (last'.op \in {"grant_minter", "revoke_minter"} /\ last'.pred # owner_id) =>
            /\ ~last'.ok
            /\ last'.exit.minters = minters
            /\ minters' = minters
       /\ minters' # minters =>
            /\ last'.op \in {"grant_minter", "revoke_minter"}
            /\ last'.pred = owner_id
            /\ last'.ok]_vars

\* alice, a minter but not the store owner, asks to revoke herself
C8_Witness ==
    /\ last.op = "revoke_minter"
    /\ last.pred = "alice"
    /\ last.args.account_id = "alice"
    /\ ~last.ok
    /\ "alice" \in minters

\* C9: a mint creates tokens only for a caller that is a minter when it
\* calls, and records that caller as the minter of each token; an account
\* becomes a minter only by a successful grant_minter of it, and is none
\* after a successful revoke_minter of it.
C9_OnlyMintersMint ==
    [][/\ (IsMint(last') /\ last'.pred \notin minters) =>
            (~last'.ok /\ tokens' = tokens /\ last'.exit = Store)
       /\ \A t \in DOMAIN tokens' \ DOMAIN tokens :
            /\ IsMint(last')
            /\ tokens'[t].minter = last'.pred
            /\ tokens'[t].minter \in minters
       /\ \A x \in minters' \ minters :
            last'.op = "grant_minter" /\ last'.ok /\ last'.args.account_id = x
       /\ (last'.op = "revoke_minter" /\ last'.ok) =>
            last'.args.account_id \notin minters']_vars

\* alice minted token 0 as a minter, was revoked, and asks to mint again
\* with everything else in order
C9_Witness ==
    /\ IsMint(last)
    /\ ~last.ok
    /\ last.pred = "alice"
    /\ "alice" \notin minters
    /\ 0 \in DOMAIN tokens
    /\ tokens[0].minter = "alice"
    /\ MintOtherPreconditions(minters \cup {"alice"}, last.pred, last.args)
    /\ Covered(last.args) >=
         EstimateWith(last.args, MintSplitLen(last.args.split_owners))

\* C10: nft_payout and nft_transfer_payout on a token whose owner is a token
\* of this contract, a token of another contract or a lock fail, return no
\* payout and write nothing; the token stays as it was.
C10_PayoutNeedsAccountOwner ==
    [][(/\ last'.op \in {"nft_payout", "nft_transfer_payout"}
        /\ last'.args.token_id \in DOMAIN tokens
        /\ tokens[last'.args.token_id].owner_id.kind # "Account") =>
          /\ ~last'.ok
          /\ ~last'.payout.some
          /\ last'.exit = Store
          /\ tokens' = tokens]_vars

\* a sale, one yocto attached and any length allowed, of a token that a
\* token of another contract owns
C10_Witness ==
    /\ last.op = "nft_transfer_payout"
    /\ ~last.ok
    /\ last.args.deposit = 1
    /\ last.args.max_len_payout = MAX_LEN_PAYOUT
    /\ last.args.token_id \in DOMAIN tokens
    /\ tokens[last.args.token_id].owner_id.kind = "CrossKey"

\* the token ids a call is about: those listed by set_split_owners, the one
\* named by nft_payout and nft_transfer_payout
CallTokens(c) ==
    IF c.op = "set_split_owners" THEN Listed(c.args.token_ids)
    ELSE IF c.op \in {"nft_payout", "nft_transfer_payout"} THEN {c.args.token_id}
    ELSE {}

\* C11: while the owner of a token is a Lock, every set_split_owners,
\* nft_payout and nft_transfer_payout on it fails and what the call wrote
\* leaves the token as it was; the token changes only in the step that
\* unlocks it, which hands it back to the locked account.
C11_LockedTokenRejects ==
    [][\A t \in DOMAIN tokens :
         tokens[t].owner_id.kind = "Lock" =>
           /\ t \in CallTokens(last') =>
                /\ ~last'.ok
                /\ last'.exit.tokens[t] = tokens[t]
           /\ t \in DOMAIN tokens'
           /\ tokens'[t] # tokens[t] =>
                /\ last'.op = "owner"
                /\ last'.args.token_id = t
                /\ tokens'[t] = [tokens[t] EXCEPT
                                   !.owner_id = Account(tokens[t].owner_id.locked)]]_vars

\* alice asks for split owners, with all in order, on her token that is
\* locked
C11_Witness ==
    /\ last.op = "set_split_owners"
    /\ ~last.ok
    /\ last.pred = "alice"
    /\ last.args = SplitRequest(<<0>>, 12, S2)
    /\ 0 \in DOMAIN tokens
    /\ tokens[0].owner_id = Lock("alice")
    /\ ~tokens[0].split_owners.some
    /\ ~tokens[0].royalty_id.some

\* the number of entries of the royalty a token refers to, and of its split
\* owners; 0 where there is none
RoyaltyLen(t) ==
    LET r == get_token_royalty(Store, t)
    IN IF r.some THEN Cardinality(DOMAIN r.val.split_between) ELSE 0
SplitLen(t) ==
    IF tokens[t].split_owners.some
      THEN Cardinality(DOMAIN tokens[t].split_owners.val.split_between)
      ELSE 0

\* C12: in every state, for every token, the entries of its royalty and the
\* entries of its split owners are together at most MAX_LEN_PAYOUT.
C12_PayoutLengthBounded ==
    \A t \in DOMAIN tokens : RoyaltyLen(t) + SplitLen(t) <= MAX_LEN_PAYOUT

\* alice asks for two split owners, with all else in order, on her token
\* whose royalty has 49 entries
C12_Witness ==
    /\ last.op = "set_split_owners"
    /\ ~last.ok
    /\ last.pred = "alice"
    /\ last.args = SplitRequest(<<0>>, 12, S2)
    /\ 0 \in DOMAIN tokens
    /\ tokens[0].owner_id = Account("alice")
    /\ ~tokens[0].split_owners.some
    /\ RoyaltyLen(0) = MAX_LEN_PAYOUT - 1

\* the accounts of the split owners of a token, and of its royalty
SplitKeys(st, t) ==
    IF st.tokens[t].split_owners.some
      THEN DOMAIN st.tokens[t].split_owners.val.split_between
      ELSE {}
RoyaltyKeys(st, t) ==
    LET r == get_token_royalty(st, t)
    IN IF r.some THEN DOMAIN r.val.split_between ELSE {}

C14_RoyaltyStoredOncePerBatch ==
    [][/\ (IsMint(last') /\ last'.ok) =>
            LET first == tokens_minted
                batch == DOMAIN tokens' \ DOMAIN tokens
            IN /\ first \in batch
               /\ first \notin DOMAIN token_royalty
               /\ IF last'.args.royalty_args.some
                    THEN /\ DOMAIN token_royalty' = DOMAIN token_royalty \cup {first}
                         /\ token_royalty'[first][2] =
                              Royalty_new(last'.args.royalty_args.val)
                         /\ \A t \in batch : tokens'[t].royalty_id = Some(first)
                    ELSE /\ token_royalty' = token_royalty
                         /\ \A t \in batch : tokens'[t].royalty_id = None
       /\ ~(IsMint(last') /\ last'.ok) => token_royalty' = token_royalty
       /\ \A k \in DOMAIN token_royalty :
            k \in DOMAIN token_royalty' /\ token_royalty'[k] = token_royalty[k]
       /\ \A t \in DOMAIN tokens :
            t \in DOMAIN tokens' /\ tokens'[t].royalty_id = tokens[t].royalty_id
       /\ \A t \in DOMAIN tokens' :
            tokens'[t].royalty_id.some =>
              /\ tokens'[t].royalty_id.val \in DOMAIN token_royalty'
              /\ get_token_royalty(Store', t) =
                   Some(token_royalty'[tokens'[t].royalty_id.val][2])]_vars

\* a second batch with a royalty is minted after a first one, whose token
\* has been sold to bob in between
C14_Witness ==
    /\ IsMint(last)
    /\ last.ok
    /\ last.args.royalty_args = Some(R33)
    /\ DOMAIN token_royalty = {0, 1}
    /\ token_royalty[0][2] = Royalty_new(R10)
    /\ token_royalty[1][2] = Royalty_new(R33)
    /\ tokens[0].owner_id = Account("bob")
    /\ tokens[0].royalty_id = Some(0)
    /\ tokens[1].royalty_id = Some(1)

\* what a sale of `b` owes to account a for the royalty of token t: the
\* floor of b times the royalty percentage times the share of a
RoyaltyDue(t, a, b) ==
    IF tokens[t].royalty_id.some
      THEN LET r == token_royalty[tokens[t].royalty_id.val][2]
           IN IF a \in DOMAIN r.split_between
                THEN ScaleTwice(b, r.percentage, r.split_between[a])
                ELSE 0
      ELSE 0

\* what is left of b after the royalties of token t
AfterRoyalties(t, b) ==
    b - SumOver([a \in RoyaltyKeys(Store, t) |-> RoyaltyDue(t, a, b)],
                RoyaltyKeys(Store, t))

\* what the sale owes to account a as a split owner of token t: the floor of
\* its share of what is left after the royalties
SplitDue(t, a, b) ==
    IF a \in SplitKeys(Store, t)
      THEN (AfterRoyalties(t, b) * tokens[t].split_owners.val.split_between[a]) \div Whole
      ELSE 0

\* what is left of b after the royalties and the splits of token t
AfterSplits(t, b) ==
    AfterRoyalties(t, b)
    - SumOver([a \in SplitKeys(Store, t) |-> SplitDue(t, a, b)], SplitKeys(Store, t))

\* the amount of account a in a payout
Paid(payout, a) == IF a \in DOMAIN payout THEN payout[a] ELSE 0

\* the payout of nft_payout for token t and balance b pays each account its
\* royalty, its split and, to the owner, `residual`, in one entry
PaysRoyaltiesSplitsAnd(t, b, residual) ==
    LET r == nft_payout(Store, t, b, MAX_LEN_PAYOUT)
        owner == tokens[t].owner_id.account
        all == RoyaltyKeys(Store, t) \cup SplitKeys(Store, t) \cup {owner}
    IN /\ r.ok
       /\ DOMAIN r.payout.val \subseteq all
       /\ \A a \in all :
            Paid(r.payout.val, a) =
              RoyaltyDue(t, a, b) + SplitDue(t, a, b)
              + (IF a = owner THEN residual ELSE 0)

\* the tokens that an account owns
AccountOwned == {t \in DOMAIN tokens : tokens[t].owner_id.kind = "Account"}

\* C15 as stated: royalties off the top, splits of what remains, and to the
\* owner nothing once split owners are set, all that remains when none is.
C15_OwnerResidualZeroWithSplit ==
    \A t \in AccountOwned, b \in Balances :
      PaysRoyaltiesSplitsAnd(t, b, IF tokens[t].split_owners.some
                                     THEN 0 ELSE AfterRoyalties(t, b))

\* C15: nft_payout pays each royalty receiver the floor of the balance times
\* its royalty share, each split owner the floor of its share of what the
\* royalties leave, and the owner what the floors leave: all that remains
\* after the royalties without split owners, less than one unit per split
\* owner with them, nothing when the shares divide what remains; amounts of
\* one account are summed.  10% to bob of 1000 gives bob 100 and the owner
\* 900; with carol and dave at half each, bob 100, carol 450, dave 450.
C15_RoyaltiesThenSplits ==
    \A t \in AccountOwned :
      /\ \A b \in Balances :
           /\ PaysRoyaltiesSplitsAnd(t, b, AfterSplits(t, b))
           /\ AfterSplits(t, b) >= 0
           /\ tokens[t].split_owners.some =>
                AfterSplits(t, b) < Cardinality(SplitKeys(Store, t))
           /\ ~tokens[t].split_owners.some => AfterSplits(t, b) = AfterRoyalties(t, b)
      /\ (/\ get_token_royalty(Store, t) = Some(Royalty_new(R10))
          /\ tokens[t].owner_id = Account("alice")) =>
            LET paid == nft_payout(Store, t, 1000, MAX_LEN_PAYOUT).payout.val
            IN /\ ~tokens[t].split_owners.some =>
                    paid = [a \in {"bob", "alice"} |-> IF a = "bob" THEN 100 ELSE 900]
               /\ tokens[t].split_owners = Some(SplitOwners_new(S2)) =>
                    paid = [a \in {"bob", "carol", "dave"} |->
                              IF a = "bob" THEN 100 ELSE 450]

\* nft_payout of 7 on alice's token with 10% to bob and halves to carol and
\* dave: 0 to bob, 3 each to carol and dave, and 1 to alice
C15_Witness ==
    /\ last.op = "nft_payout"
    /\ last.ok
    /\ last.args.balance = 7
    /\ tokens[last.args.token_id].owner_id = Account("alice")
    /\ tokens[last.args.token_id].split_owners = Some(SplitOwners_new(S2))
    /\ get_token_royalty(Store, last.args.token_id) = Some(Royalty_new(R10))
    /\ last.payout.val =
         [a \in {"bob", "carol", "dave", "alice"} |->
            IF a = "bob" THEN 0 ELSE IF a = "alice" THEN 1 ELSE 3]

\* the ceilings asked of nft_payout in the properties: none, a few, and
\* those around MAX_LEN_PAYOUT
Ceilings == 0..3 \cup (MAX_LEN_PAYOUT - 1)..(MAX_LEN_PAYOUT + 1)

\* the payout map of token t for balance b, whatever its length
ComputedPayout(t, b) ==
    into_payout(OwnershipFractions_new(tokens[t].owner_id.account,
                                       get_token_royalty(Store, t),
                                       tokens[t].split_owners), b)

\* C16: nft_payout on a token of an account returns the computed payout if
\* and only if it has at most max_len_payout entries, and fails without a
\* payout if it has more; no payout returned by nft_payout or
\* nft_transfer_payout has more entries than the ceiling of its call; a
\* token without royalty and split owners has a payout of one entry.
C16_PayoutWithinCeiling ==
    /\ \A t \in AccountOwned, b \in {7, 1000}, m \in Ceilings :
         LET r == nft_payout(Store, t, b, m)
             entries == Cardinality(DOMAIN ComputedPayout(t, b))
         IN /\ r.ok <=> entries <= m
            /\ r.ok => r.payout = Some(ComputedPayout(t, b))
            /\ ~r.ok => ~r.payout.some
            /\ (~tokens[t].royalty_id.some /\ ~tokens[t].split_owners.some) =>
                 entries = 1
    /\ (last.op \in {"nft_payout", "nft_transfer_payout"} /\ last.ok) =>
         Cardinality(DOMAIN last.payout.val) <= last.args.max_len_payout

\* nft_payout with a ceiling of one entry on alice's token without royalty
\* and split owners returns the whole balance to alice
C16_Witness ==
    /\ last.op = "nft_payout"
    /\ last.ok
    /\ last.args.max_len_payout = 1
    /\ ~tokens[last.args.token_id].royalty_id.some
    /\ ~tokens[last.args.token_id].split_owners.some
    /\ last.payout.val = [a \in {"alice"} |-> 1000]

\* C17: nft_batch_mint with num_to_mint = 0 or num_to_mint above 99 fails and
\* creates no token; tokens_minted grows by at most 99 in one call.
C17_AtMost99PerCall ==
    [][IsMint(last') =>
         /\ (\/ last'.args.num_to_mint = 0
             \/ last'.args.num_to_mint > DOC_MINT_LIMIT) =>
              /\ ~last'.ok
              /\ last'.exit = Store
              /\ tokens' = tokens
         /\ tokens_minted' - tokens_minted <= DOC_MINT_LIMIT]_vars

\* C18: a set_split_owners on tokens that all exist which fails has written
\* the split owners of none of them: every check of every token comes before
\* the first write.
C18_SplitChecksBeforeWrites ==
    [][(/\ last'.op = "set_split_owners"
        /\ ~last'.ok
        /\ Listed(last'.args.token_ids) \subseteq DOMAIN tokens) =>
          \A t \in Listed(last'.args.token_ids) :
            last'.exit.tokens[t].split_owners = tokens[t].split_owners]_vars

\* C19: the split owners of a token, where it has some, are at least two,
\* in every state; nft_batch_mint with a split map of fewer than two
\* entries, and set_split_owners with one, fail and write nothing.
C19_SplitHasTwoEntries ==
    [][/\ \A t \in DOMAIN tokens' :
            tokens'[t].split_owners.some =>
              Cardinality(DOMAIN tokens'[t].split_owners.val.split_between) >= 2
       /\ (/\ IsMint(last')
           /\ last'.args.split_owners.some
           /\ Cardinality(DOMAIN last'.args.split_owners.val) < 2) =>
             (~last'.ok /\ last'.exit = Store /\ tokens' = tokens)
       /\ (/\ last'.op = "set_split_owners"
           /\ Cardinality(DOMAIN last'.args.split_between) < 2) =>
             (~last'.ok /\ last'.exit = Store /\ tokens' = tokens)]_vars

\* alice asks for one split owner, with all else in order, on her token 0
\* that has none; token 1 has the three split owners of its mint
C19_Witness ==
    /\ last.op = "set_split_owners"
    /\ ~last.ok
    /\ last.pred = "alice"
    /\ last.args = SplitRequest(<<0>>, 12, S1)
    /\ DOMAIN tokens = {0, 1}
    /\ tokens[0].owner_id = Account("alice")
    /\ ~tokens[0].split_owners.some
    /\ tokens[1].split_owners = Some(SplitOwners_new(S3))

\* C20: nft_transfer_payout with another deposit than one yocto fails, and
\* so does one whose nft_payout on the state before the call fails; both
\* write nothing and leave the tokens as they were.  One that succeeds had
\* one yocto attached and returns the payout that nft_payout gives on the
\* state before the call: computed with the seller as owner and with the
\* split owners that the transfer clears.
C20_PayoutBeforeTransfer ==
    [][last'.op = "nft_transfer_payout" =>
         LET a == last'.args
             before == nft_payout(Store, a.token_id, a.balance, a.max_len_payout)
         IN /\ (a.deposit # 1 \/ ~before.ok) =>
                 /\ ~last'.ok
                 /\ ~last'.payout.some
                 /\ last'.exit = Store
                 /\ tokens' = tokens
            /\ last'.ok =>
                 /\ a.deposit = 1
                 /\ last'.payout = before.payout
                 /\ last'.payout = Some(ComputedPayout(a.token_id, a.balance))
                 /\ tokens[a.token_id].owner_id = Account(last'.pred)
                 /\ tokens'[a.token_id].owner_id = Account(a.receiver_id)
                 /\ ~tokens'[a.token_id].split_owners.some]_vars

\* alice has sold to bob for 1000 the token with a third as royalty and
\* three split owners: she is paid her royalty, her split and the remainder,
\* bob his split only
C20_Witness ==
    /\ last.op = "nft_transfer_payout"
    /\ last.ok
    /\ last.pred = "alice"
    /\ last.args.receiver_id = "bob"
    /\ tokens[last.args.token_id].owner_id = Account("bob")
    /\ ~tokens[last.args.token_id].split_owners.some
    /\ last.payout.val =
         [x \in {"alice", "bob", "carol"} |->
            IF x = "alice" THEN 334 ELSE IF x = "bob" THEN 222 ELSE 444]

====
